---- MODULE Spec2Model ----
(***************************************************************************)
(* Address resolution and bulk aggregation pipeline of app.py:             *)
(* normalize_address_for_search, find_parcel_for_address,                  *)
(* get_assessments_for_parcel, lookup_single_address and build_results,    *)
(* with the remote CARTO service as a nondeterministic environment.        *)
(*                                                                         *)
(* Text is a sequence of fragments (single characters, or longer literal  *)
(* pieces of a message); Python's str operations are defined on it.        *)
(***************************************************************************)
EXTENDS Integers, Sequences, FiniteSets, TLC

VARIABLES
    \* ---- build_results (Spec) ----
    pc,                \* "idle" | "loop" | "done" | "stopped"
    entry,             \* "none" | "script" | "direct": who called build_results
    addr_text,         \* the non-blank lines typed into the page (script runs)
    addresses,         \* the addresses argument
    years,             \* the years argument (a list of ints)
    unique_addresses,  \* line 203
    idx,               \* number of addresses the loop has completed
    rows,              \* List[Dict]: each row an ordered dict
    errors,            \* List[str]
    columns,           \* columns of the returned DataFrame, in order
    queries,           \* every SQL query handed to call_carto, in order
    lookups,           \* every address handed to lookup_single_address, in order
    outcomes,          \* per completed address: what the remote answered
    \* ---- normalize_address_for_search / find_parcel_for_address (SpecNorm) ----
    npc,               \* "input" | "normalized" | "renormalized" | "resolved"
    raw,               \* the raw address
    pattern,           \* normalize_address_for_search(raw)
    repattern,         \* normalize_address_for_search(pattern without its %)
    found,             \* result of find_parcel_for_address(raw)
    nqueries           \* queries find_parcel_for_address(raw) issued

vars == <<pc, entry, addr_text, addresses, years, unique_addresses, idx, rows, errors,
          columns, queries, lookups, outcomes,
          npc, raw, pattern, repattern, found, nqueries>>

batchVars == <<pc, entry, addr_text, addresses, years, unique_addresses, idx, rows, errors,
               columns, queries, lookups, outcomes>>

normVars == <<npc, raw, pattern, repattern, found, nqueries>>

-----------------------------------------------------------------------------
(* Bounds *)

\* longest addresses list handed to build_results
MaxAddrs == 3
\* number of pieces a raw address of SpecNorm is made of
MaxPieces == 4

-----------------------------------------------------------------------------
(* Python str operations on sequences of characters *)

Whitespace == {" "}

\* characters for which str.isdigit() is true; int() raises ValueError on "sup2"
DecimalDigits == {"0", "1", "2", "3", "4", "5", "6", "7", "8", "9"}
DigitChars == DecimalDigits \cup {"sup2"}

LowerCase == <<"a", "b", "c", "d", "e", "f", "g", "h", "i", "j", "k", "l", "m",
               "n", "o", "p", "q", "r", "s", "t", "u", "v", "w", "x", "y", "z">>
UpperCase == <<"A", "B", "C", "D", "E", "F", "G", "H", "I", "J", "K", "L", "M",
               "N", "O", "P", "Q", "R", "S", "T", "U", "V", "W", "X", "Y", "Z">>

UpperChar(c) ==
    IF \E i \in 1..Len(LowerCase) : LowerCase[i] = c
    THEN UpperCase[CHOOSE i \in 1..Len(LowerCase) : LowerCase[i] = c]
    ELSE c

\* str.upper()
Upper(s) == [i \in 1..Len(s) |-> UpperChar(s[i])]

RECURSIVE LStrip(_)
LStrip(s) ==
    IF s # <<>> /\ Head(s) \in Whitespace THEN LStrip(Tail(s)) ELSE s

RECURSIVE RStrip(_)
RStrip(s) ==
    IF s # <<>> /\ s[Len(s)] \in Whitespace
    THEN RStrip(SubSeq(s, 1, Len(s) - 1))
    ELSE s

\* str.strip()
Strip(s) == RStrip(LStrip(s))

\* str.split(",")[0]
RECURSIVE BeforeComma(_)
BeforeComma(s) ==
    IF s = <<>> \/ Head(s) = "," THEN <<>>
    ELSE <<Head(s)>> \o BeforeComma(Tail(s))

\* the first whitespace-delimited token of s (s has no leading whitespace)
RECURSIVE FirstToken(_)
FirstToken(s) ==
    IF s = <<>> \/ Head(s) \in Whitespace THEN <<>>
    ELSE <<Head(s)>> \o FirstToken(Tail(s))

\* str.split(): the whitespace-delimited tokens, none empty
RECURSIVE Split(_)
Split(s) ==
    LET t == LStrip(s) IN
    IF t = <<>> THEN <<>>
    ELSE LET tok == FirstToken(t)
         IN <<tok>> \o Split(SubSeq(t, Len(tok) + 1, Len(t)))

\* " ".join(parts)
RECURSIVE Join(_)
Join(parts) ==
    IF parts = <<>> THEN <<>>
    ELSE IF Len(parts) = 1 THEN parts[1]
    ELSE parts[1] \o <<" ">> \o Join(Tail(parts))

\* str.isdigit()
IsDigit(tok) == tok # <<>> /\ \A i \in 1..Len(tok) : tok[i] \in DigitChars

\* int(tok) succeeds (no ValueError); tok.isdigit() is known to hold
IntParses(tok) == \A i \in 1..Len(tok) : tok[i] \in DecimalDigits

\* str(int(tok)): the decimal digits without leading zeros
RECURSIVE StrInt(_)
StrInt(tok) ==
    IF Len(tok) > 1 /\ Head(tok) = "0" THEN StrInt(Tail(tok)) ELSE tok

\* str.endswith(suffix)
EndsWith(s, suffix) ==
    /\ Len(s) >= Len(suffix)
    /\ SubSeq(s, Len(s) - Len(suffix) + 1, Len(s)) = suffix

\* str.replace("'", "''")
RECURSIVE EscapeQuotes(_)
EscapeQuotes(s) ==
    IF s = <<>> THEN <<>>
    ELSE (IF Head(s) = "'" THEN <<"'", "'">> ELSE <<Head(s)>>)
         \o EscapeQuotes(Tail(s))

-----------------------------------------------------------------------------
(* normalize_address_for_search *)

\* suffix_map, in insertion order: <<long_suffix, short_suffix>>
suffix_map == <<
    << <<" ", "S", "T", "R", "E", "E", "T">>,                <<" ", "S", "T">> >>,
    << <<" ", "A", "V", "E", "N", "U", "E">>,                <<" ", "A", "V", "E">> >>,
    << <<" ", "B", "O", "U", "L", "E", "V", "A", "R", "D">>, <<" ", "B", "L", "V", "D">> >>,
    << <<" ", "R", "O", "A", "D">>,                          <<" ", "R", "D">> >>,
    << <<" ", "D", "R", "I", "V", "E">>,                     <<" ", "D", "R">> >>,
    << <<" ", "P", "L", "A", "C", "E">>,                     <<" ", "P", "L">> >>,
    << <<" ", "C", "O", "U", "R", "T">>,                     <<" ", "C", "T">> >>,
    << <<" ", "L", "A", "N", "E">>,                          <<" ", "L", "N">> >>,
    << <<" ", "T", "E", "R", "R", "A", "C", "E">>,           <<" ", "T", "E", "R">> >> >>

\* a house number that loses one leading zero only
StripOneLeadingZero(a) ==
    LET parts == Split(a)
        parts1 == IF parts # <<>> /\ IsDigit(parts[1]) /\ IntParses(parts[1])
                     /\ Len(parts[1]) > 1 /\ Head(parts[1]) = "0"
                  THEN [parts EXCEPT ![1] = Tail(parts[1])]
                  ELSE parts
    IN Join(parts1)

\* lines 55-61: strip leading zeros from the house number
StripHouseNumber(a) ==
    LET parts == Split(a)
        parts1 == IF parts # <<>> /\ IsDigit(parts[1]) /\ IntParses(parts[1])
                  THEN [parts EXCEPT ![1] = StrInt(parts[1])]
                  ELSE parts
    IN Join(parts1)

\* the long suffix cut off and the short one never appended
AbbreviateSuffixCutOnly(a) ==
    LET hits == {i \in 1..Len(suffix_map) : EndsWith(a, suffix_map[i][1])} IN
    IF hits = {} THEN a
    ELSE LET i == CHOOSE j \in hits : \A k \in hits : j <= k
         IN SubSeq(a, 1, Len(a) - Len(suffix_map[i][1]))

\* lines 74-77: the first mapping whose long form a ends with is applied, then break
AbbreviateSuffix(a) ==
    LET hits == {i \in 1..Len(suffix_map) : EndsWith(a, suffix_map[i][1])} IN
    IF hits = {} THEN a
    ELSE LET i == CHOOSE j \in hits : \A k \in hits : j <= k
         IN SubSeq(a, 1, Len(a) - Len(suffix_map[i][1])) \o suffix_map[i][2]

\* line 79
SqlEscape(a) == EscapeQuotes(a)

\* lines 39-80; the empty pattern "" is <<>>
normalize_address_for_search(address) ==
    IF address = <<>> THEN <<>>
    ELSE LET a0 == BeforeComma(Strip(address)) IN
         IF a0 = <<>> THEN <<>>
         ELSE <<"%">> \o SqlEscape(AbbreviateSuffix(StripHouseNumber(Upper(a0)))) \o <<"%">>

-----------------------------------------------------------------------------
(* JSON / Python values: None, str, int and dict (an ordered list of items) *)

None == [k |-> "none", s |-> <<>>, n |-> 0, items |-> <<>>]
Str(text) == [k |-> "str", s |-> text, n |-> 0, items |-> <<>>]
Num(i) == [k |-> "int", s |-> <<>>, n |-> i, items |-> <<>>]
Dict(its) == [k |-> "dict", s |-> <<>>, n |-> 0, items |-> its]

\* Python truthiness: `not v` is ~Truthy(v)
Truthy(v) ==
    CASE v.k = "none" -> FALSE
      [] v.k = "str" -> v.s # <<>>
      [] v.k = "int" -> v.n # 0
      [] v.k = "dict" -> v.items # <<>>

\* keys of an ordered dict, in insertion order
Keys(its) == [i \in 1..Len(its) |-> its[i][1]]

HasKey(its, key) == \E i \in 1..Len(its) : its[i][1] = key

\* dict.get(key): None when the key is absent
Get(its, key) ==
    IF HasKey(its, key)
    THEN its[CHOOSE i \in 1..Len(its) : its[i][1] = key][2]
    ELSE None

\* d[key] = value: in place when the key exists, appended otherwise
Put(its, key, value) ==
    IF HasKey(its, key)
    THEN [i \in 1..Len(its) |-> IF its[i][1] = key THEN <<key, value>> ELSE its[i]]
    ELSE Append(its, <<key, value>>)

\* the elements of a set of ints in ascending order
RECURSIVE SetToSeq(_)
SetToSeq(S) ==
    IF S = {} THEN <<>>
    ELSE LET m == CHOOSE x \in S : \A y \in S : x <= y
         IN <<m>> \o SetToSeq(S \ {m})

\* sorted(set(years))
SortedSet(ys) == SetToSeq({ys[i] : i \in 1..Len(ys)})

-----------------------------------------------------------------------------
(* The remote service: what a request to CARTO_SQL_URL can answer *)

\* a response: the HTTP status and, for 200, the "rows" of the JSON body
HttpError == [status |-> 500, rows |-> <<>>]
Ok(rs) == [status |-> 200, rows |-> rs]
\* where no request is sent
NoResponse == [status |-> 0, rows |-> <<>>]

\* a row that is a JSON string, not an object
NonMappingRow == Str(<<"x">>)

ParcelNumbers == {None, Str(<<"P", "1">>)}

\* the registry row of the parcel query: parcel_number, full_address, zip_code
ParcelRow(pn) ==
    Dict(<< <<"parcel_number", pn>>,
            <<"full_address", Str(<<"1 MAIN ST">>)>>,
            <<"zip_code", Str(<<"19104">>)>> >>)

\* SELECT * on the assessments table: the columns come in the table's order
AssessmentRow(pn, y) ==
    Dict(<< <<"year", Num(y)>>,
            <<"market_value", Num(100)>>,
            <<"parcel_number", pn>>,
            <<"exempt_land", Num(0)>> >>)

\* the answers to the parcel query (LIMIT 1)
ParcelResponses ==
    {HttpError, Ok(<<>>), Ok(<<NonMappingRow>>)}
        \cup {Ok(<<ParcelRow(pn)>>) : pn \in ParcelNumbers}

\* the answers to the assessments query: rows of the requested years, ORDER BY year
AssessmentResponses(pn, ys) ==
    {HttpError, Ok(<<NonMappingRow>>)}
        \cup {Ok([i \in 1..Cardinality(S) |-> AssessmentRow(pn, SetToSeq(S)[i])]) :
                S \in SUBSET {ys[i] : i \in 1..Len(ys)}}

\* lines 31-36: the data returned, or the exception raised
call_carto(resp) ==
    IF resp.status # 200
    THEN [raised |-> TRUE, exc |-> "Carto API error 500", rows |-> <<>>]
    ELSE [raised |-> FALSE, exc |-> "", rows |-> resp.rows]

ParcelQuery(pat) == [table |-> "opa_properties_public_pde", key |-> pat, years |-> <<>>]
AssessmentQuery(pn, ys) == [table |-> "assessments", key |-> pn.s, years |-> ys]

-----------------------------------------------------------------------------
(* find_parcel_for_address, get_assessments_for_parcel, lookup_single_address *)

\* a resolver that queries whatever the pattern is
find_parcel_for_address_unguarded(address, resp) ==
    LET pat == normalize_address_for_search(address)
        data == call_carto(resp)
    IN [raised |-> data.raised,
        exc |-> data.exc,
        value |-> IF ~data.raised /\ data.rows # <<>> THEN data.rows[1] ELSE None,
        sent |-> <<ParcelQuery(pat)>>]

\* lines 89-106; value is the row or None, sent the queries issued
find_parcel_for_address(address, resp) ==
    LET pat == normalize_address_for_search(address) IN
    IF pat = <<>>
    THEN [raised |-> FALSE, exc |-> "", value |-> None, sent |-> <<>>]
    ELSE LET data == call_carto(resp) IN
         [raised |-> data.raised,
          exc |-> data.exc,
          value |-> IF ~data.raised /\ data.rows # <<>> THEN data.rows[1] ELSE None,
          sent |-> <<ParcelQuery(pat)>>]

\* lines 116-130
get_assessments_for_parcel(parcel_number, ys, resp) ==
    IF ~Truthy(parcel_number)
    THEN [raised |-> FALSE, exc |-> "", value |-> <<>>, sent |-> <<>>]
    ELSE LET data == call_carto(resp) IN
         [raised |-> data.raised,
          exc |-> data.exc,
          value |-> IF data.raised THEN <<>> ELSE data.rows,
          sent |-> <<AssessmentQuery(parcel_number, SortedSet(ys))>>]

\* lines 144-147
ParcelErrorRows(address, e) ==
    << << <<"input_address", Str(address)>>,
          <<"note", Str(<<"Error looking up parcel: ", e>>)>> >> >>

\* lines 150-153
NoParcelRows(address) ==
    << << <<"input_address", Str(address)>>,
          <<"note", Str(<<"No parcel found for this address">>)>> >> >>

\* a fetch failure that yields no row at all
AssessmentErrorRowsNone(address, parcel_number, full_address, zip_code, e) == <<>>

\* lines 163-169: the fetch raised e
AssessmentErrorRows(address, parcel_number, full_address, zip_code, e) ==
    << << <<"input_address", Str(address)>>,
          <<"parcel_number", parcel_number>>,
          <<"full_address", full_address>>,
          <<"zip_code", zip_code>>,
          <<"note", Str(<<"Error looking up assessments: ", e>>)>> >> >>

\* an empty fetch that falls through to the merge loop and yields no row
NoAssessmentRowsNone(address, parcel_number, full_address, zip_code) == <<>>

\* lines 172-178: the fetch returned no rows
NoAssessmentRows(address, parcel_number, full_address, zip_code) ==
    << << <<"input_address", Str(address)>>,
          <<"parcel_number", parcel_number>>,
          <<"full_address", full_address>>,
          <<"zip_code", zip_code>>,
          <<"note", Str(<<"Parcel found, but no assessment records for selected years">>)>> >> >>

\* lines 183-187: rec = dict(a) with the address and the parcel fields set
MergedRow(a, address, parcel_number, full_address, zip_code) ==
    Put(Put(Put(Put(a.items, "input_address", Str(address)),
                "parcel_number", parcel_number),
            "full_address", full_address),
        "zip_code", zip_code)

Returned(rs, sent) == [raised |-> FALSE, exc |-> "", rows |-> rs, sent |-> sent]
Raised(e, sent) == [raised |-> TRUE, exc |-> e, rows |-> <<>>, sent |-> sent]

\* lines 140-190; presp and aresp are the remote's answers to the two queries
lookup_single_address(address, ys, presp, aresp) ==
    LET p == find_parcel_for_address(address, presp) IN
    IF p.raised THEN Returned(ParcelErrorRows(address, p.exc), p.sent)
    ELSE IF ~Truthy(p.value) THEN Returned(NoParcelRows(address), p.sent)
    ELSE IF p.value.k # "dict"
         THEN Raised("'str' object has no attribute 'get'", p.sent)
    ELSE
    LET parcel_number == Get(p.value.items, "parcel_number")
        full_address == Get(p.value.items, "full_address")
        zip_code == Get(p.value.items, "zip_code")
        f == get_assessments_for_parcel(parcel_number, ys, aresp)
        sent == p.sent \o f.sent
    IN
    IF f.raised
    THEN Returned(AssessmentErrorRows(address, parcel_number, full_address, zip_code,
                                      f.exc), sent)
    ELSE IF f.value = <<>>
    THEN Returned(NoAssessmentRows(address, parcel_number, full_address, zip_code), sent)
    ELSE IF \E i \in 1..Len(f.value) : f.value[i].k # "dict"
    THEN Raised("dictionary update sequence element #0 has length 1; 2 is required", sent)
    ELSE Returned([i \in 1..Len(f.value) |->
                      MergedRow(f.value[i], address, parcel_number, full_address, zip_code)],
                  sent)

-----------------------------------------------------------------------------
(* build_results *)

\* the elements of a list, each kept at its first occurrence (dict.fromkeys)
RECURSIVE FromKeys(_)
FromKeys(l) ==
    IF l = <<>> THEN <<>>
    ELSE LET front == FromKeys(SubSeq(l, 1, Len(l) - 1))
             last == l[Len(l)]
         IN IF \E i \in 1..Len(front) : front[i] = last THEN front
            ELSE Append(front, last)

\* [x for x in l if Strip(x)]
RECURSIVE NonBlank(_)
NonBlank(l) ==
    IF l = <<>> THEN <<>>
    ELSE (IF Strip(Head(l)) # <<>> THEN <<Head(l)>> ELSE <<>>) \o NonBlank(Tail(l))

\* deduplication of the raw values, trimmed only afterwards
UniqueAddressesUntrimmed(addrs) ==
    LET u == FromKeys(addrs) IN NonBlank([i \in 1..Len(u) |-> Strip(u[i])])

\* deduplication that keeps the blank entry
UniqueAddressesKeepBlank(addrs) ==
    FromKeys([i \in 1..Len(addrs) |-> Strip(addrs[i])])

\* line 203
UniqueAddresses(addrs) ==
    NonBlank(FromKeys([i \in 1..Len(addrs) |-> Strip(addrs[i])]))

\* lines 212-220: what one iteration adds to rows and errors
HandleLookup(addr, r) ==
    IF ~r.raised
    THEN [rows |-> r.rows, errors |-> <<>>]
    ELSE [rows |-> << << <<"input_address", Str(addr)>>,
                         <<"note", Str(<<"Unexpected error: ", r.exc>>)>> >> >>,
          errors |-> <<addr \o <<": ", r.exc>>>>]

\* lines 232-239
preferred_order ==
    <<"input_address", "parcel_number", "full_address", "zip_code", "year", "note">>

\* pd.DataFrame(rows).columns: the keys of the rows in first-seen order
RECURSIVE AllKeys(_)
AllKeys(rs) ==
    IF rs = <<>> THEN <<>> ELSE Keys(Head(rs)) \o AllKeys(Tail(rs))

DataFrameColumns(rs) == FromKeys(AllKeys(rs))

InSeq(x, l) == \E i \in 1..Len(l) : l[i] = x

\* the columns left as the DataFrame has them
OrderColumnsFirstSeen(cols) == cols

\* lines 240-243
OrderColumns(cols) ==
    LET front == SelectSeq(preferred_order, LAMBDA c : InSeq(c, cols))
        rest == SelectSeq(cols, LAMBDA c : ~InSeq(c, front))
    IN front \o rest

\* the remote's possible answers to the queries of one address
ParcelResponsesFor(addr) ==
    IF normalize_address_for_search(addr) = <<>> THEN {NoResponse}
    ELSE ParcelResponses

AssessmentResponsesFor(addr, ys, presp) ==
    LET p == find_parcel_for_address(addr, presp) IN
    IF ~p.raised /\ p.value.k = "dict" /\ Truthy(Get(p.value.items, "parcel_number"))
    THEN AssessmentResponses(Get(p.value.items, "parcel_number"), SortedSet(ys))
    ELSE {NoResponse}

\* the raw values a caller may hand over: blank, padded, duplicate, comma-first
AddressPool ==
    { <<" ">>, <<"a">>, <<"a", " ">>, <<"b">>, <<",", "b">> }

AddressLists == UNION {[1..n -> AddressPool] : n \in 0..MaxAddrs}

\* year lists of a direct call: empty, single, unsorted pair
YearLists == { <<>>, <<2025>>, <<2026, 2025>> }

\* the checkboxes of the page (lines 387-391), as far as modelled
YearMenu == {2025, 2026}

\* lines 199-209
BuildResultsCall(addrs, ys, who) ==
    LET u == UniqueAddresses(addrs) IN
    /\ entry' = who
    /\ addr_text' = IF who = "script" THEN addrs ELSE <<>>
    /\ addresses' = addrs
    /\ years' = ys
    /\ unique_addresses' = u
    /\ rows' = <<>>
    /\ idx' = 0
    /\ columns' = <<>>
    /\ errors' = IF u = <<>> THEN << <<"No addresses provided">> >> ELSE <<>>
    /\ pc' = IF u = <<>> THEN "done" ELSE "loop"
    /\ UNCHANGED <<queries, lookups, outcomes>>

\* build_results called by any caller
DirectCall ==
    /\ pc = "idle"
    /\ \E addrs \in AddressLists, ys \in YearLists :
          BuildResultsCall(addrs, ys, "direct")
    /\ UNCHANGED normVars

\* a page that checks the address list only
ScriptStopsOnAddresses(ys, addrs) == addrs = <<>>

\* lines 403-405 and 431-433: st.stop() before build_results is called
ScriptStops(ys, addrs) == ys = <<>> \/ addrs = <<>>

\* lines 393-437: the page collects years and addresses, then runs the lookup
ScriptRun ==
    /\ pc = "idle"
    /\ \E textlines \in AddressLists, sel \in SUBSET YearMenu :
          LET ys == SetToSeq(sel)
              addrs == NonBlank([i \in 1..Len(textlines) |-> Strip(textlines[i])])
          IN IF ScriptStops(ys, addrs)
             THEN /\ pc' = "stopped"
                  /\ entry' = "script"
                  /\ addr_text' = addrs
                  /\ years' = ys
                  /\ UNCHANGED <<addresses, unique_addresses, rows, idx, columns,
                                 errors, queries, lookups, outcomes>>
             ELSE BuildResultsCall(addrs, ys, "script")
    /\ UNCHANGED normVars

\* lines 211-222: one iteration of the loop over unique_addresses
LoopIteration ==
    /\ pc = "loop"
    /\ idx < Len(unique_addresses)
    /\ LET addr == unique_addresses[idx + 1] IN
       \E presp \in ParcelResponsesFor(addr) :
       \E aresp \in AssessmentResponsesFor(addr, years, presp) :
          LET r == lookup_single_address(addr, years, presp, aresp)
              h == HandleLookup(addr, r)
          IN /\ rows' = rows \o h.rows
             /\ errors' = errors \o h.errors
             /\ queries' = queries \o r.sent
             /\ lookups' = Append(lookups, addr)
             /\ outcomes' = Append(outcomes, [parcel |-> presp, assess |-> aresp])
             /\ idx' = idx + 1
    /\ UNCHANGED <<pc, entry, addr_text, addresses, years, unique_addresses, columns>>
    /\ UNCHANGED normVars

\* lines 224-245
BuildResultsReturn ==
    /\ pc = "loop"
    /\ idx = Len(unique_addresses)
    /\ columns' = IF rows = <<>> THEN <<>> ELSE OrderColumns(DataFrameColumns(rows))
    /\ pc' = "done"
    /\ UNCHANGED <<entry, addr_text, addresses, years, unique_addresses, idx, rows,
                   errors, queries, lookups, outcomes>>
    /\ UNCHANGED normVars

BatchInit ==
    /\ pc = "idle"
    /\ entry = "none"
    /\ addr_text = <<>>
    /\ addresses = <<>>
    /\ years = <<>>
    /\ unique_addresses = <<>>
    /\ idx = 0
    /\ rows = <<>>
    /\ errors = <<>>
    /\ columns = <<>>
    /\ queries = <<>>
    /\ lookups = <<>>
    /\ outcomes = <<>>

NormIdle ==
    /\ npc = "input"
    /\ raw = <<>>
    /\ pattern = <<>>
    /\ repattern = <<>>
    /\ found = [raised |-> FALSE, exc |-> "", value |-> None, sent |-> <<>>]
    /\ nqueries = <<>>

Init == BatchInit /\ NormIdle

Next == DirectCall \/ ScriptRun \/ LoopIteration \/ BuildResultsReturn

Spec == Init /\ [][Next]_vars

-----------------------------------------------------------------------------
(* normalize_address_for_search and find_parcel_for_address on raw addresses *)

\* what raw addresses are made of
Pieces ==
    { <<" ">>, <<"0">>, <<"7">>, <<"sup2">>, <<"a">>, <<"'">>, <<",">>,
      <<"S", "t", "r", "e", "e", "t">>, <<"R", "O", "A", "D">> }

RECURSIVE Concat(_)
Concat(ps) == IF ps = <<>> THEN <<>> ELSE Head(ps) \o Concat(Tail(ps))

RawAddresses == {Concat(ps) : ps \in UNION {[1..n -> Pieces] : n \in 0..MaxPieces}}

\* the address text of a pattern: the pattern without its surrounding %
Inner(pat) == SubSeq(pat, 2, Len(pat) - 1)

NormInit ==
    /\ BatchInit
    /\ npc = "input"
    /\ raw \in RawAddresses
    /\ pattern = <<>>
    /\ repattern = <<>>
    /\ found = [raised |-> FALSE, exc |-> "", value |-> None, sent |-> <<>>]
    /\ nqueries = <<>>

Normalize ==
    /\ npc = "input"
    /\ pattern' = normalize_address_for_search(raw)
    /\ npc' = "normalized"
    /\ UNCHANGED <<raw, repattern, found, nqueries>>
    /\ UNCHANGED batchVars

Renormalize ==
    /\ npc = "normalized"
    /\ pattern # <<>>
    /\ repattern' = normalize_address_for_search(Inner(pattern))
    /\ npc' = "renormalized"
    /\ UNCHANGED <<raw, pattern, found, nqueries>>
    /\ UNCHANGED batchVars

FindParcel ==
    /\ npc = "normalized"
    /\ \E resp \in ParcelResponsesFor(raw) :
          /\ found' = find_parcel_for_address(raw, resp)
          /\ nqueries' = find_parcel_for_address(raw, resp).sent
    /\ npc' = "resolved"
    /\ UNCHANGED <<raw, pattern, repattern>>
    /\ UNCHANGED batchVars

NormNext == Normalize \/ Renormalize \/ FindParcel

SpecNorm == NormInit /\ [][NormNext]_vars

-----------------------------------------------------------------------------
(* Properties of build_results (Spec) *)

\* the rows of the table that carry addr as their input address
RowsOf(addr) == SelectSeq(rows, LAMBDA r : Get(r, "input_address") = Str(addr))

\* the rows address i yields from the remote's answers to its own queries alone
OwnRows(i) ==
    HandleLookup(unique_addresses[i],
                 lookup_single_address(unique_addresses[i], years,
                                       outcomes[i].parcel, outcomes[i].assess)).rows

\* the request that fetches the assessments of address i failed
FetchFailed(i) == outcomes[i].assess = HttpError

\* C1: when the fetch of assessments fails for an address B of a batch, the loop
\* still runs over every address, the table holds for every other address exactly
\* the rows that address yields from its own answers, and at least one row for B.
C1_FetchFailureIsolated ==
    \A b \in 1..Len(outcomes) :
        FetchFailed(b) =>
            /\ Len(RowsOf(unique_addresses[b])) >= 1
            /\ pc = "done" =>
                  /\ Len(outcomes) = Len(unique_addresses)
                  /\ \A j \in (1..Len(unique_addresses)) \ {b} :
                        RowsOf(unique_addresses[j]) = OwnRows(j)

\* a finished batch [A, B, C] where B's fetch failed and A got its two yearly rows
C1_Witness ==
    /\ pc = "done"
    /\ Len(unique_addresses) = 3
    /\ FetchFailed(2)
    /\ ~FetchFailed(1)
    /\ Len(RowsOf(unique_addresses[1])) = 2
    /\ ~HasKey(RowsOf(unique_addresses[1])[1], "note")
    /\ Len(RowsOf(unique_addresses[3])) >= 1

\* an exception was raised while address i was normalized, resolved or fetched
ExceptionFor(i) ==
    \/ outcomes[i].parcel = HttpError
    \/ outcomes[i].assess = HttpError
    \/ lookup_single_address(unique_addresses[i], years,
                             outcomes[i].parcel, outcomes[i].assess).raised

\* the entries of the error list of the form "<addr>: <message>"
ErrorsFor(addr) ==
    {e \in 1..Len(errors) :
        /\ Len(errors[e]) = Len(addr) + 2
        /\ SubSeq(errors[e], 1, Len(addr)) = addr
        /\ errors[e][Len(addr) + 1] = ": "}

\* C2: every exception raised during the per-address sequence adds exactly one
\* error string "<address>: <message>" to the error list and exactly one
\* placeholder row with the address and a note.
C2_OneErrorStringPerException ==
    \A i \in 1..Len(outcomes) :
        ExceptionFor(i) =>
            /\ Cardinality(ErrorsFor(unique_addresses[i])) = 1
            /\ Len(RowsOf(unique_addresses[i])) = 1
            /\ Truthy(Get(RowsOf(unique_addresses[i])[1], "note"))

\* the distinct trimmed non-blank input values
TrimmedNonBlank == {Strip(addresses[i]) : i \in 1..Len(addresses)} \ {<<>>}

\* where the trimmed value v first occurs in the input
FirstAt(v) ==
    CHOOSE i \in 1..Len(addresses) :
        /\ Strip(addresses[i]) = v
        /\ \A j \in 1..(i - 1) : Strip(addresses[j]) # v

ParcelQueries == SelectSeq(queries, LAMBDA q : q.table = "opa_properties_public_pde")

\* C3: the addresses looked up are the distinct trimmed non-blank input values,
\* each once, in first-occurrence order; no address is resolved twice.
C3_EachDistinctAddressOnce ==
    /\ \A i \in 1..Len(lookups) : lookups[i] \in TrimmedNonBlank
    /\ \A i, j \in 1..Len(lookups) :
          i < j => /\ lookups[i] # lookups[j]
                   /\ FirstAt(lookups[i]) < FirstAt(lookups[j])
    /\ Len(ParcelQueries) <= Len(lookups)
    /\ pc = "done" =>
          /\ {lookups[i] : i \in 1..Len(lookups)} = TrimmedNonBlank
          /\ Len(lookups) = Cardinality(TrimmedNonBlank)

\* a finished run whose input repeats an address, once with padding
C3_Witness ==
    /\ pc = "done"
    /\ Len(lookups) = 2
    /\ \E i, j \in 1..Len(addresses) :
          /\ i < j
          /\ addresses[i] # addresses[j]
          /\ Strip(addresses[i]) = Strip(addresses[j])
          /\ Strip(addresses[i]) # <<>>

AllBlank == \A i \in 1..Len(addresses) : Strip(addresses[i]) = <<>>

\* C4: with an empty or all-blank address list build_results returns a table
\* without rows and the single batch-level error, and sends no query.
C4_NoAddressesNoQuery ==
    (pc = "done" /\ AllBlank) =>
        /\ rows = <<>>
        /\ columns = <<>>
        /\ errors = << <<"No addresses provided">> >>
        /\ queries = <<>>
        /\ lookups = <<>>

\* build_results has returned for a list of blank entries
C4_Witness ==
    /\ pc = "done"
    /\ entry = "direct"
    /\ Len(addresses) = 2
    /\ AllBlank
    /\ Len(errors) = 1

\* C5 as claimed: build_results called with addresses and an empty year list
\* returns an error result and sends no query.
C5_EmptyYearsNoQuery ==
    (pc \in {"loop", "done"} /\ addresses # <<>> /\ years = <<>>) =>
        /\ queries = <<>>
        /\ pc = "done" => (rows = <<>> /\ errors # <<>>)

\* C5 amended: an empty year selection is rejected by the page, which stops
\* before build_results is called, so no query is sent; build_results itself
\* checks the address list only, and with an empty year list it looks up every
\* unique address and sends the parcel query of each non-empty pattern.
C5_EmptyYearsStopAtPage ==
    /\ (entry = "script" /\ years = <<>>) =>
          /\ pc = "stopped"
          /\ queries = <<>>
          /\ lookups = <<>>
          /\ rows = <<>>
    /\ (pc = "done" /\ years = <<>> /\ unique_addresses # <<>>) =>
          /\ lookups = unique_addresses
          /\ \A i \in 1..Len(unique_addresses) :
                normalize_address_for_search(unique_addresses[i]) # <<>> =>
                    InSeq(ParcelQuery(normalize_address_for_search(unique_addresses[i])),
                          queries)

\* the page was given address lines and no year
C5_Witness ==
    /\ entry = "script"
    /\ years = <<>>
    /\ addr_text # <<>>
    /\ pc = "stopped"

\* the parcel row the resolver found for address i, if it found one
ParcelFound(i) ==
    /\ outcomes[i].parcel.status = 200
    /\ outcomes[i].parcel.rows # <<>>
    /\ outcomes[i].parcel.rows[1].k = "dict"

FoundParcel(i) == outcomes[i].parcel.rows[1].items

NoMatch(i) ==
    \/ normalize_address_for_search(unique_addresses[i]) = <<>>
    \/ outcomes[i].parcel = Ok(<<>>)

\* parcel found, and the fetch returned no assessment row
ZeroAssessments(i) ==
    /\ ParcelFound(i)
    /\ outcomes[i].assess \in {Ok(<<>>), NoResponse}

\* parcel found, and the fetch returned N >= 1 assessment records
SomeAssessments(i) ==
    /\ ParcelFound(i)
    /\ outcomes[i].assess.status = 200
    /\ outcomes[i].assess.rows # <<>>
    /\ \A k \in 1..Len(outcomes[i].assess.rows) : outcomes[i].assess.rows[k].k = "dict"

CarriesParcel(row, i) ==
    /\ Get(row, "parcel_number") = Get(FoundParcel(i), "parcel_number")
    /\ Get(row, "full_address") = Get(FoundParcel(i), "full_address")
    /\ Get(row, "zip_code") = Get(FoundParcel(i), "zip_code")

\* C6: the rows of every address follow the three policies: no match -> one row
\* with a note and no parcel identifier; parcel without assessment rows -> one
\* row with the parcel fields and a note; N assessment rows -> N rows, each the
\* assessment record with the input address and the parcel fields, and no note.
\* Every address processed has at least one row.
C6_RowPolicies ==
    \A i \in 1..Len(outcomes) :
        LET addr == unique_addresses[i]
            R == RowsOf(addr)
        IN /\ Len(R) >= 1
           /\ NoMatch(i) =>
                 /\ Len(R) = 1
                 /\ Truthy(Get(R[1], "note"))
                 /\ ~HasKey(R[1], "parcel_number")
           /\ ZeroAssessments(i) =>
                 /\ Len(R) = 1
                 /\ HasKey(R[1], "parcel_number")
                 /\ CarriesParcel(R[1], i)
                 /\ Truthy(Get(R[1], "note"))
           /\ SomeAssessments(i) =>
                 /\ Len(R) = Len(outcomes[i].assess.rows)
                 /\ \A k \in 1..Len(R) :
                       /\ CarriesParcel(R[k], i)
                       /\ ~HasKey(R[k], "note")
                       /\ \A c \in {"year", "market_value", "exempt_land"} :
                             Get(R[k], c) = Get(outcomes[i].assess.rows[k].items, c)

\* a batch with one address of each policy
C6_Witness ==
    /\ pc = "done"
    /\ Len(outcomes) = 3
    /\ \E i, j, k \in 1..3 :
          /\ NoMatch(i)
          /\ ZeroAssessments(j)
          /\ SomeAssessments(k)
          /\ Len(outcomes[k].assess.rows) = 2

IdentifyingColumns ==
    <<"input_address", "parcel_number", "full_address", "zip_code", "year">>

\* the position of x in the list l
IndexIn(x, l) == CHOOSE i \in 1..Len(l) : l[i] = x /\ \A j \in 1..(i - 1) : l[j] # x

ColumnSet == {AllKeys(rows)[i] : i \in 1..Len(AllKeys(rows))}

\* the columns that are neither identifying nor the note, as first seen in the rows
RemainingFirstSeen ==
    SelectSeq(FromKeys(AllKeys(rows)),
              LAMBDA c : ~InSeq(c, IdentifyingColumns) /\ c # "note")

\* C7 as claimed: identifying columns present first, then the remaining columns
\* in first-seen order, the note column last.
C7_NoteColumnLast ==
    (pc = "done" /\ rows # <<>>) =>
        columns = SelectSeq(IdentifyingColumns, LAMBDA c : c \in ColumnSet)
                      \o RemainingFirstSeen
                      \o (IF "note" \in ColumnSet THEN <<"note">> ELSE <<>>)

\* the rank a column has in the returned table
ColumnRank(c) ==
    IF InSeq(c, IdentifyingColumns) THEN IndexIn(c, IdentifyingColumns)
    ELSE IF c = "note" THEN Len(IdentifyingColumns) + 1
    ELSE Len(IdentifyingColumns) + 1 + IndexIn(c, AllKeys(rows))

\* C7 amended: the columns of the table are the columns present in the rows, each
\* once: the identifying columns present (input_address, parcel_number,
\* full_address, zip_code, year) in that order, then the note column if present,
\* then all remaining columns in first-seen order.
C7_NoteAfterIdentifying ==
    (pc = "done" /\ rows # <<>>) =>
        /\ {columns[i] : i \in 1..Len(columns)} = ColumnSet
        /\ Len(columns) = Cardinality(ColumnSet)
        /\ \A i, j \in 1..Len(columns) :
              i < j => ColumnRank(columns[i]) < ColumnRank(columns[j])

\* a table with a note column and pass-through assessment columns
C7_Witness ==
    /\ pc = "done"
    /\ InSeq("note", columns)
    /\ InSeq("market_value", columns)
    /\ InSeq("exempt_land", columns)
    /\ IndexIn("note", columns) < IndexIn("market_value", columns)
    /\ IndexIn("market_value", columns) < IndexIn("exempt_land", columns)

-----------------------------------------------------------------------------
(* Properties of normalize_address_for_search and find_parcel_for_address
   (SpecNorm) *)

\* the part of raw before its first comma holds no single quote
NoQuote == \A i \in 1..Len(BeforeComma(Strip(raw))) : BeforeComma(Strip(raw))[i] # "'"

\* C8 as claimed: normalizing the address text of a pattern again yields the
\* same pattern, for every raw address.
C8_Idempotent == npc = "renormalized" => repattern = pattern

\* C8 amended: normalizing the address text of a pattern again yields the same
\* pattern for every raw address with no single quote before its first comma
\* (leading-zero house numbers and long-form suffixes included); a single quote
\* is doubled again by every pass.
C8_IdempotentWithoutQuotes ==
    (npc = "renormalized" /\ NoQuote) => repattern = pattern

\* "07 Street" was normalized to %7 ST% and normalized again
C8_Witness ==
    /\ npc = "renormalized"
    /\ raw = <<"0", "7", " ", "S", "t", "r", "e", "e", "t">>
    /\ pattern = <<"%", "7", " ", "S", "T", "%">>
    /\ repattern = pattern

\* raw is empty, whitespace only, or has nothing but whitespace before its first comma
EmptyLike ==
    \E n \in 0..Len(raw) :
        /\ \A i \in 1..n : raw[i] \in Whitespace
        /\ n = Len(raw) \/ raw[n + 1] = ","

\* C9: for an address that is empty, whitespace only or has nothing before its
\* first comma, the pattern is empty and the resolver returns None without
\* raising and without a query; no query is ever built from an empty pattern.
C9_EmptyPatternNoQuery ==
    /\ EmptyLike =>
          /\ npc # "input" => pattern = <<>>
          /\ npc = "resolved" =>
                /\ ~found.raised
                /\ found.value = None
                /\ nqueries = <<>>
    /\ \A i \in 1..Len(nqueries) : nqueries[i].key # <<>>

\* the resolver has answered for " ,a"
C9_Witness ==
    /\ npc = "resolved"
    /\ raw = <<" ", ",", "a">>
    /\ found.value = None

\* the upper-cased tokens of the part of raw before its first comma
RawTokens == Split(Upper(BeforeComma(Strip(raw))))

\* the tokens of the address text of the pattern
PatternTokens == Split(Inner(pattern))

\* the long-form suffix words and their abbreviations, without the leading blank
LongWords == [i \in 1..Len(suffix_map) |-> Tail(suffix_map[i][1])]
ShortWords == [i \in 1..Len(suffix_map) |-> Tail(suffix_map[i][2])]

IsLongWord(w) == \E i \in 1..Len(LongWords) : LongWords[i] = w

\* the token list t ends in a long-form suffix word
EndsInLongWordOf(t) == t # <<>> /\ IsLongWord(t[Len(t)])

\* the last token of raw is a long-form suffix word
EndsInLongWord == EndsInLongWordOf(RawTokens)

\* q is t with its last word abbreviated and every earlier token unchanged
\* (up to the house number's leading zeros and the doubling of quotes)
AbbreviatedOf(t, q) ==
    /\ Len(q) = Len(t)
    /\ q[Len(q)] = ShortWords[CHOOSE j \in 1..Len(LongWords) : t[Len(t)] = LongWords[j]]
    /\ \A k \in 1..(Len(t) - 1) :
          \/ q[k] = EscapeQuotes(t[k])
          \/ k = 1 /\ IsDigit(t[1])

LastWordAbbreviated == AbbreviatedOf(RawTokens, PatternTokens)

MoreThanOneToken == Len(RawTokens) >= 2

\* C10 as claimed: whenever the text before the first comma ends in a long-form
\* suffix word, the pattern ends in its abbreviation and nothing else changed.
C10_SuffixAbbreviated ==
    (npc # "input" /\ EndsInLongWord) => LastWordAbbreviated

\* C10 amended: whenever the text before the first comma ends in a long-form
\* suffix word that is not its only token, the pattern's address text ends in the
\* abbreviation: only the final word is replaced, earlier suffix words stay.
C10_SuffixAfterTokenAbbreviated ==
    (npc # "input" /\ EndsInLongWord /\ MoreThanOneToken) => LastWordAbbreviated

\* "Street ROAD" became %STREET RD%
C10_Witness ==
    /\ npc = "normalized"
    /\ raw = <<"S", "t", "r", "e", "e", "t", " ", "R", "O", "A", "D">>
    /\ pattern = <<"%", "S", "T", "R", "E", "E", "T", " ", "R", "D", "%">>

====
